---------------------------- MODULE Spec2Model ----------------------------
(***************************************************************************)
(* TaskFlow: the Task record, the TaskManager repository (Js/taskmanager.js)*)
(* and the Storage collaborator over localStorage (Js/storage.js).          *)
(*                                                                          *)
(* Encoding of JavaScript values:                                           *)
(*   - a string field that is absent/undefined is the empty string "",      *)
(*     which `||` treats exactly like undefined (both are falsy);           *)
(*   - a title is a sequence of one-character strings, so that trim() is    *)
(*     computed; Undefined stands for a title that is not a string;         *)
(*   - a timestamp is a clock tick, a due date is a day number; null (and   *)
(*     an absent value, falsy alike) is the number null;                    *)
(*   - a reference to a Task object held by a caller is the index of that   *)
(*     object in TaskManager.tasks.                                         *)
(***************************************************************************)
EXTENDS Integers, Sequences, FiniteSets, TLC

\* ------------------------------------------------------------------ bounds
MaxTasks == 2        \* longest collection explored
MaxViewTasks == 3    \* longest collection explored by the queries alone
StartClock == 4      \* the clock tick of the session
DayTicks == 2        \* clock ticks per calendar day
MaxRateTasks == 40   \* longest collection whose completion rate is computed
MaxAppAdds == 1      \* tasks added through the form in one session of the page
MaxTimers == 2       \* callbacks given to setTimeout that have not run yet

null == 0

\* ------------------------------------------------------------ value domains
Undefined == <<"undefined">>
WhiteSpace == {" "}
RandomSuffixes == {"r1", "r2"}
TzOffsets == {-1, 0}
Filters == {"all", "pending", "completed", "overdue"}

\* An entry of the stored array that is the JSON value null.
NullEntry == [isNull |-> TRUE]

Data(id, title, priority, category, dueDate, isComplete, completedAt) ==
    [id |-> id, title |-> title, priority |-> priority, category |-> category,
     dueDate |-> dueDate, isComplete |-> isComplete,
     createdAt |-> null, completedAt |-> completedAt]

\* taskData objects handed to addTask.
AddInputs ==
    {Data("", Undefined, "", "", null, FALSE, null),
     Data("", <<>>, "", "", null, FALSE, null),
     Data("a", <<" ">>, "", "", null, FALSE, null),
     Data("a", <<" ", "B", " ">>, "", "", null, FALSE, null),
     Data("", <<"B">>, "", "", null, FALSE, null),
     Data("", <<"B">>, "high", "work", 1, FALSE, null),
     Data("a", <<"B">>, "", "", null, TRUE, null)}

\* updates objects handed to updateTask: the keys present and their values.
Partial(keys, title) ==
    [keys |-> keys, title |-> title, priority |-> "high", category |-> "work",
     dueDate |-> 1]

UpdateInputs ==
    {Partial({"title", "priority", "category", "dueDate"}, <<" ">>),
     Partial({"title", "priority", "category", "dueDate"}, <<"B", " ">>),
     Partial({"priority", "category", "dueDate",
              "id", "createdAt", "isComplete", "completedAt"}, <<>>)}

\* An updates object whose category is the empty string.
EmptyCategoryUpdates ==
    [Partial({"category"}, <<>>) EXCEPT !.category = ""]

\* ------------------------------------------------------------------- Task
RECURSIVE trimStart(_)
trimStart(s) ==
    IF s # <<>> /\ Head(s) \in WhiteSpace THEN trimStart(Tail(s)) ELSE s

RECURSIVE trimEnd(_)
trimEnd(s) ==
    IF s # <<>> /\ s[Len(s)] \in WhiteSpace THEN trimEnd(SubSeq(s, 1, Len(s) - 1)) ELSE s

\* String.prototype.trim
trim(s) == trimEnd(trimStart(s))

generateId(t, r) == "task_" \o ToString(t) \o "_" \o r

\* new Task(taskData) throws a TypeError when taskData is null or its title
\* has no trim method.
TaskThrows(taskData) == taskData = NullEntry \/ taskData.title = Undefined

\* new Task(taskData) at clock tick t with random suffix r.
Task(taskData, t, r) ==
    [id          |-> IF taskData.id # "" THEN taskData.id ELSE generateId(t, r),
     title       |-> trim(taskData.title),
     priority    |-> IF taskData.priority # "" THEN taskData.priority ELSE "medium",
     category    |-> IF taskData.category # "" THEN taskData.category ELSE "personal",
     dueDate     |-> IF taskData.dueDate # null THEN taskData.dueDate ELSE null,
     isComplete  |-> IF taskData.isComplete THEN taskData.isComplete ELSE FALSE,
     createdAt   |-> IF taskData.createdAt # null THEN taskData.createdAt ELSE t,
     completedAt |-> IF taskData.completedAt # null THEN taskData.completedAt ELSE null]

\* Calendar day, in the local time zone tz, of the clock tick t.
LocalDay(t, tz) == (t + tz) \div DayTicks

\* Task.isOverdue: the due date is parsed as UTC midnight of its day, both
\* dates are moved to local midnight and compared.
isOverdue(task, t, tz) ==
    IF task.dueDate = null \/ task.isComplete
    THEN FALSE
    ELSE LocalDay(task.dueDate * DayTicks, tz) < LocalDay(t, tz)

\* Task.toggleComplete at clock tick t.
toggleComplete(task, t) ==
    [task EXCEPT !.isComplete = ~task.isComplete,
                 !.completedAt = IF ~task.isComplete THEN t ELSE null]

\* Task.update throws a TypeError when the title key is present with a value
\* that has no trim method; title is the first key visited.
UpdateThrows(updates) == "title" \in updates.keys /\ updates.title = Undefined

\* Task.update: only the allowed keys present in updates are assigned.
update(task, updates) ==
    [task EXCEPT
       !.title    = IF "title" \in updates.keys THEN trim(updates.title) ELSE @,
       !.priority = IF "priority" \in updates.keys THEN updates.priority ELSE @,
       !.category = IF "category" \in updates.keys THEN updates.category ELSE @,
       !.dueDate  = IF "dueDate" \in updates.keys THEN updates.dueDate ELSE @]

\* Task.toJSON
toJSON(task) ==
    [id |-> task.id, title |-> task.title, priority |-> task.priority,
     category |-> task.category, dueDate |-> task.dueDate,
     isComplete |-> task.isComplete, createdAt |-> task.createdAt,
     completedAt |-> task.completedAt]

\* ---------------------------------------------------------------- Storage
\* What localStorage holds under STORAGE_KEY: nothing, the JSON text of an
\* array, the JSON text of a value that is no array, or text that is no JSON.
NoItem == [kind |-> "absent"]
JSONstringify(tasksData) == [kind |-> "array", items |-> tasksData]

\* Contents of localStorage when the page is opened.
InitialStores ==
    {NoItem, [kind |-> "invalid"], [kind |-> "object"],
     JSONstringify(<<NullEntry>>),
     JSONstringify(<<Data("a", <<"B">>, "high", "work", 1, FALSE, null),
                     Data("", Undefined, "", "", null, FALSE, null)>>),
     JSONstringify(<<Data("a", <<" ">>, "", "", null, TRUE, null),
                     Data("a", <<"B">>, "", "", null, TRUE, StartClock)>>)}

\* Storage.getTasks; available is false when localStorage.getItem throws.
getTasks(store, available) ==
    IF ~available THEN <<>>
    ELSE IF store.kind = "absent" THEN <<>>
    ELSE IF store.kind = "invalid" THEN <<>>
    ELSE IF store.kind # "array" THEN <<>>
    ELSE store.items

\* Storage.saveTasks: the value it returns; localStorage.setItem throws when
\* localStorage cannot be used.
StorageSaveTasksResult(available) == available

\* Storage.saveTasks: the new content of localStorage.
StorageSaveTasks(store, tasksData, available) ==
    IF available THEN JSONstringify(tasksData) ELSE store

\* Storage.clearAll: the value it returns; localStorage.removeItem throws
\* when localStorage cannot be used.
StorageClearAllResult(available) == available

\* Storage.clearAll: the new content of localStorage.
StorageClearAll(store, available) ==
    IF available THEN NoItem ELSE store

\* ------------------------------------------------------------------ state
VARIABLES
    tasks,          \* TaskManager.tasks
    localStorage,   \* localStorage[STORAGE_KEY]
    available,      \* whether localStorage can be used (Storage.isAvailable)
    now,            \* the clock (Date.now)
    tz,             \* local time zone offset, in ticks
    op,             \* the operation that ran last
    arg,            \* its arguments
    ret,            \* the value it returned
    threw,          \* the exception it threw, "none" if it returned
    saveCalls,      \* calls of Storage.saveTasks it made
    clearCalls,     \* calls of Storage.clearAll it made
    saved,          \* the argument of its Storage.saveTasks call
    storageOk,      \* the value its Storage call returned
    editingTaskId,  \* App.editingTaskId
    currentFilter,  \* App.currentFilter
    timers,         \* the callbacks given to setTimeout that have not run yet
    toast           \* the type of the toast shown last

app == <<editingTaskId, currentFilter, timers, toast>>
env == <<available, now, tz, app>>
vars == <<tasks, localStorage, available, now, tz, op, arg, ret, threw,
          saveCalls, clearCalls, saved, storageOk, app>>

\* Values returned to the caller.  refs are the Task objects returned, each
\* the index of the object in TaskManager.tasks; array tells whether a
\* returned array is a new array ("fresh") or TaskManager.tasks itself.
Ret(kind, refs, num, bool, array) ==
    [kind |-> kind, refs |-> refs, num |-> num, bool |-> bool, array |-> array]
RetUndefined == Ret("undefined", <<>>, 0, FALSE, "none")
RetNull == Ret("null", <<>>, 0, FALSE, "none")
RetTask(i) == Ret("task", <<i>>, 0, FALSE, "none")
RetBoolean(b) == Ret("boolean", <<>>, 0, b, "none")
RetNumber(n) == Ret("number", <<>>, n, FALSE, "none")
RetArray(refs) == Ret("array", refs, 0, FALSE, "fresh")

\* What the caller of an operation observes of it.
Observed(o, a, r, th) == op' = o /\ arg' = a /\ ret' = r /\ threw' = th

\* The operation made no call to Storage.
NoStorageCall ==
    /\ saveCalls' = 0 /\ clearCalls' = 0 /\ saved' = <<>> /\ storageOk' = "none"
    /\ UNCHANGED localStorage

\* TaskManager.saveTasks: one call of Storage.saveTasks with the
\* serialization of newTasks; the value Storage.saveTasks returns is dropped.
saveTasks(newTasks) ==
    LET tasksData == [i \in 1..Len(newTasks) |-> toJSON(newTasks[i])]
    IN /\ saveCalls' = 1 /\ clearCalls' = 0
       /\ saved' = tasksData
       /\ storageOk' = IF StorageSaveTasksResult(available) THEN "true" ELSE "false"
       /\ localStorage' = StorageSaveTasks(localStorage, tasksData, available)

\* null, for a variable that holds an id: ids are strings and, like null,
\* the empty string is falsy and is no task's id.
NoId == ""

\* No toast has been shown.
NoToast == ""

\* The App object as the script defines it, before App.init.
AppNotStarted ==
    /\ editingTaskId = NoId
    /\ currentFilter = "all"
    /\ timers = <<>>
    /\ toast = NoToast

\* The page is opened: TaskManager.tasks is [], localStorage holds what an
\* earlier session or another program left there, unless localStorage cannot
\* be used at all.
Init ==
    /\ tasks = <<>>
    /\ \/ available = FALSE /\ localStorage = NoItem
       \/ available = TRUE /\ localStorage \in InitialStores
    /\ now = StartClock
    /\ tz = 0
    /\ op = "new" /\ arg = <<>> /\ ret = RetUndefined /\ threw = "none"
    /\ saveCalls = 0 /\ clearCalls = 0 /\ saved = <<>> /\ storageOk = "none"
    /\ AppNotStarted

\* TaskManager.getTaskById: the index of the first task with that id, 0 when
\* there is none.
getTaskById(ts, taskId) ==
    IF \E i \in 1..Len(ts) : ts[i].id = taskId
    THEN CHOOSE i \in 1..Len(ts) :
           /\ ts[i].id = taskId
           /\ \A j \in 1..(i - 1) : ts[j].id # taskId
    ELSE 0

\* Ids a caller may pass: those of the collection, and one of no task.
TaskIds == {tasks[i].id : i \in 1..Len(tasks)} \cup {"none"}

\* TaskManager.init / loadTasks
Initialize ==
    LET storedTasks == getTasks(localStorage, available)
    IN \E rs \in [1..Len(storedTasks) -> RandomSuffixes] :
         /\ IF \E i \in 1..Len(storedTasks) : TaskThrows(storedTasks[i])
            THEN /\ UNCHANGED tasks
                 /\ Observed("init", <<>>, RetUndefined, "TypeError")
            ELSE /\ tasks' = [i \in 1..Len(storedTasks) |->
                                Task(storedTasks[i], now, rs[i])]
                 /\ Observed("init", <<>>, RetUndefined, "none")
         /\ NoStorageCall
         /\ UNCHANGED env

\* addTask persisting before the new task is in the collection.
AddSavesBeforeInsert ==
    \E taskData \in AddInputs, r \in RandomSuffixes :
      /\ Len(tasks) < MaxTasks
      /\ IF TaskThrows(taskData)
         THEN /\ UNCHANGED tasks
              /\ Observed("addTask", taskData, RetUndefined, "TypeError")
              /\ NoStorageCall
         ELSE LET newTask == Task(taskData, now, r)
              IN /\ saveTasks(tasks)
                 /\ tasks' = <<newTask>> \o tasks
                 /\ Observed("addTask", taskData, RetTask(1), "none")
      /\ UNCHANGED env

\* addTask putting the new task at the end of the collection.
AddAtEnd ==
    \E taskData \in AddInputs, r \in RandomSuffixes :
      /\ Len(tasks) < MaxTasks
      /\ IF TaskThrows(taskData)
         THEN /\ UNCHANGED tasks
              /\ Observed("addTask", taskData, RetUndefined, "TypeError")
              /\ NoStorageCall
         ELSE LET newTask == Task(taskData, now, r)
              IN /\ tasks' = Append(tasks, newTask)
                 /\ saveTasks(Append(tasks, newTask))
                 /\ Observed("addTask", taskData, RetTask(Len(tasks) + 1), "none")
      /\ UNCHANGED env

\* TaskManager.addTask
addTask(taskData, r) ==
    IF TaskThrows(taskData)
    THEN /\ UNCHANGED tasks
         /\ Observed("addTask", taskData, RetUndefined, "TypeError")
         /\ NoStorageCall
    ELSE LET newTask == Task(taskData, now, r)
         IN /\ tasks' = <<newTask>> \o tasks
            /\ saveTasks(<<newTask>> \o tasks)
            /\ Observed("addTask", taskData, RetTask(1), "none")

\* TaskManager.addTask
Add ==
    \E taskData \in AddInputs, r \in RandomSuffixes :
      /\ Len(tasks) < MaxTasks
      /\ addTask(taskData, r)
      /\ UNCHANGED env

\* updateTask assigning every key of updates, the ones Task.update does not
\* allow included.
UpdateAssignsEveryKey ==
    \E taskId \in TaskIds, updates \in UpdateInputs :
      LET i == getTaskById(tasks, taskId)
          a == [taskId |-> taskId, updates |-> updates]
      IN /\ IF i = 0
            THEN /\ UNCHANGED tasks
                 /\ Observed("updateTask", a, RetNull, "none")
                 /\ NoStorageCall
            ELSE IF UpdateThrows(updates)
            THEN /\ UNCHANGED tasks
                 /\ Observed("updateTask", a, RetUndefined, "TypeError")
                 /\ NoStorageCall
            ELSE LET assigned ==
                       [update(tasks[i], updates) EXCEPT
                          !.isComplete = IF "isComplete" \in updates.keys
                                         THEN FALSE ELSE @,
                          !.completedAt = IF "completedAt" \in updates.keys
                                          THEN null ELSE @]
                     newTasks == [tasks EXCEPT ![i] = assigned]
                 IN /\ tasks' = newTasks
                    /\ saveTasks(newTasks)
                    /\ Observed("updateTask", a, RetTask(i), "none")
         /\ UNCHANGED env

\* TaskManager.updateTask(taskId, updates)
updateTask(taskId, updates) ==
    LET i == getTaskById(tasks, taskId)
        a == [taskId |-> taskId, updates |-> updates]
    IN /\ IF i = 0
          THEN /\ UNCHANGED tasks
               /\ Observed("updateTask", a, RetNull, "none")
               /\ NoStorageCall
          ELSE IF UpdateThrows(updates)
          THEN /\ UNCHANGED tasks
               /\ Observed("updateTask", a, RetUndefined, "TypeError")
               /\ NoStorageCall
          ELSE LET newTasks == [tasks EXCEPT ![i] = update(tasks[i], updates)]
               IN /\ tasks' = newTasks
                  /\ saveTasks(newTasks)
                  /\ Observed("updateTask", a, RetTask(i), "none")

\* TaskManager.updateTask
Update ==
    \E taskId \in TaskIds, updates \in UpdateInputs :
      updateTask(taskId, updates) /\ UNCHANGED env

\* TaskManager.updateTask with an empty category
UpdateEmptyCategory ==
    \E taskId \in TaskIds :
      updateTask(taskId, EmptyCategoryUpdates) /\ UNCHANGED env

\* toggleTaskComplete marking the task complete whatever it was.
ToggleOnlyCompletes ==
    \E taskId \in TaskIds :
      LET i == getTaskById(tasks, taskId)
          a == [taskId |-> taskId]
      IN /\ IF i = 0
            THEN /\ UNCHANGED tasks
                 /\ Observed("toggleTaskComplete", a, RetNull, "none")
                 /\ NoStorageCall
            ELSE LET newTasks == [tasks EXCEPT ![i] =
                                    [@ EXCEPT !.isComplete = TRUE,
                                              !.completedAt = now]]
                 IN /\ tasks' = newTasks
                    /\ saveTasks(newTasks)
                    /\ Observed("toggleTaskComplete", a, RetTask(i), "none")
         /\ UNCHANGED env

\* TaskManager.toggleTaskComplete
ToggleKeepsCompletedAt ==
    \E taskId \in TaskIds :
      LET i == getTaskById(tasks, taskId)
          a == [taskId |-> taskId]
      IN /\ IF i = 0
            THEN /\ UNCHANGED tasks
                 /\ Observed("toggleTaskComplete", a, RetNull, "none")
                 /\ NoStorageCall
            ELSE LET newTasks == [tasks EXCEPT ![i] =
                                    [@ EXCEPT !.isComplete = ~@,
                                              !.completedAt = IF @ = null THEN now ELSE @]]
                 IN /\ tasks' = newTasks
                    /\ saveTasks(newTasks)
                    /\ Observed("toggleTaskComplete", a, RetTask(i), "none")
         /\ UNCHANGED env

\* TaskManager.toggleTaskComplete(taskId)
toggleTaskComplete(taskId) ==
    LET i == getTaskById(tasks, taskId)
        a == [taskId |-> taskId]
    IN IF i = 0
       THEN /\ UNCHANGED tasks
            /\ Observed("toggleTaskComplete", a, RetNull, "none")
            /\ NoStorageCall
       ELSE LET newTasks == [tasks EXCEPT ![i] = toggleComplete(tasks[i], now)]
            IN /\ tasks' = newTasks
               /\ saveTasks(newTasks)
               /\ Observed("toggleTaskComplete", a, RetTask(i), "none")

\* TaskManager.toggleTaskComplete
ToggleComplete ==
    \E taskId \in TaskIds : toggleTaskComplete(taskId) /\ UNCHANGED env

\* deleteTask persisting whether or not a task was removed.
DeleteAlwaysSaves ==
    \E taskId \in TaskIds :
      LET initialLength == Len(tasks)
          newTasks == SelectSeq(tasks, LAMBDA task : task.id # taskId)
          a == [taskId |-> taskId]
      IN /\ tasks' = newTasks
         /\ saveTasks(newTasks)
         /\ Observed("deleteTask", a, RetBoolean(Len(newTasks) < initialLength), "none")
         /\ UNCHANGED env

\* TaskManager.deleteTask
deleteTask(taskId) ==
    LET initialLength == Len(tasks)
        newTasks == SelectSeq(tasks, LAMBDA task : task.id # taskId)
        a == [taskId |-> taskId]
    IN /\ tasks' = newTasks
       /\ IF Len(newTasks) < initialLength
          THEN /\ saveTasks(newTasks)
               /\ Observed("deleteTask", a, RetBoolean(TRUE), "none")
          ELSE /\ NoStorageCall
               /\ Observed("deleteTask", a, RetBoolean(FALSE), "none")

\* TaskManager.deleteTask
Delete ==
    \E taskId \in TaskIds : deleteTask(taskId) /\ UNCHANGED env

\* clearCompleted persisting whether or not a task was removed.
ClearCompletedAlwaysSaves ==
    LET initialLength == Len(tasks)
        newTasks == SelectSeq(tasks, LAMBDA task : ~task.isComplete)
        deletedCount == initialLength - Len(newTasks)
    IN /\ tasks' = newTasks
       /\ saveTasks(newTasks)
       /\ Observed("clearCompleted", <<>>, RetNumber(deletedCount), "none")
       /\ UNCHANGED env

\* TaskManager.clearCompleted
clearCompleted ==
    LET initialLength == Len(tasks)
        newTasks == SelectSeq(tasks, LAMBDA task : ~task.isComplete)
        deletedCount == initialLength - Len(newTasks)
    IN /\ tasks' = newTasks
       /\ IF deletedCount > 0
          THEN saveTasks(newTasks)
          ELSE NoStorageCall
       /\ Observed("clearCompleted", <<>>, RetNumber(deletedCount), "none")

\* TaskManager.clearCompleted
ClearCompleted == clearCompleted /\ UNCHANGED env

\* clearAll calling Storage.clearAll only when there were tasks.
ClearAllSkipsEmpty ==
    LET count == Len(tasks)
    IN /\ tasks' = <<>>
       /\ IF count > 0
          THEN /\ saveCalls' = 0 /\ clearCalls' = 1 /\ saved' = <<>>
               /\ storageOk' = IF StorageClearAllResult(available)
                                THEN "true" ELSE "false"
               /\ localStorage' = StorageClearAll(localStorage, available)
          ELSE NoStorageCall
       /\ Observed("clearAll", <<>>, RetNumber(count), "none")
       /\ UNCHANGED env

\* TaskManager.clearAll
clearAll ==
    LET count == Len(tasks)
    IN /\ tasks' = <<>>
       /\ saveCalls' = 0 /\ clearCalls' = 1 /\ saved' = <<>>
       /\ storageOk' = IF StorageClearAllResult(available) THEN "true" ELSE "false"
       /\ localStorage' = StorageClearAll(localStorage, available)
       /\ Observed("clearAll", <<>>, RetNumber(count), "none")

\* TaskManager.clearAll
ClearAll == clearAll /\ UNCHANGED env

\* ---------------------------------------------------------------- queries
SortKeys == {"dateCreated", "dueDate", "priority", "alphabetical"}
Queries == {<<>>, <<" ">>, <<" ", "b">>}

\* String.prototype.toLowerCase
LowerChar(c) == CASE c = "A" -> "a" [] c = "B" -> "b" [] OTHER -> c
toLowerCase(s) == [i \in 1..Len(s) |-> LowerChar(s[i])]

\* String.prototype.includes
includes(s, sub) ==
    \E i \in 0..(Len(s) - Len(sub)) : SubSeq(s, i + 1, i + Len(sub)) = sub

\* Array.prototype.filter over TaskManager.tasks: the matching Task objects,
\* in collection order.
Indices(ts) == [i \in 1..Len(ts) |-> i]

\* TaskManager.filterTasks
filterTasks(ts, filter, t, z) ==
    CASE filter = "pending"   -> SelectSeq(Indices(ts), LAMBDA i : ~ts[i].isComplete)
      [] filter = "completed" -> SelectSeq(Indices(ts), LAMBDA i : ts[i].isComplete)
      [] filter = "overdue"   -> SelectSeq(Indices(ts), LAMBDA i : isOverdue(ts[i], t, z))
      [] OTHER                -> Indices(ts)

\* TaskManager.searchTasks
searchTasks(ts, query) ==
    IF trim(query) = <<>>
    THEN Indices(ts)
    ELSE LET searchTerm == trim(toLowerCase(query))
         IN SelectSeq(Indices(ts),
                      LAMBDA i : includes(toLowerCase(ts[i].title), searchTerm))

\* Sign of a number.
Sign(n) == IF n < 0 THEN -1 ELSE IF n > 0 THEN 1 ELSE 0

\* The object literal priorityOrder; a priority it does not name gives
\* undefined, and the subtraction NaN, which sort takes as 0.
IsNamedPriority(p) == p \in {"high", "medium", "low"}
priorityOrder(p) == CASE p = "high" -> 0 [] p = "medium" -> 1 [] OTHER -> 2

\* Collation rank of a character: letters after the space, a letter's lower
\* case before its upper case.
Primary(c) == CASE c = " " -> 0 [] c \in {"a", "A"} -> 1 [] c \in {"b", "B"} -> 2 [] OTHER -> 3
Tertiary(c) == IF c \in {"A", "B"} THEN 1 ELSE 0

\* Comparison of two sequences of ranks, the first difference deciding.
RECURSIVE LexCompare(_, _)
LexCompare(x, y) ==
    IF x = <<>> /\ y = <<>> THEN 0
    ELSE IF x = <<>> THEN -1
    ELSE IF y = <<>> THEN 1
    ELSE IF Head(x) # Head(y) THEN Sign(Head(x) - Head(y))
    ELSE LexCompare(Tail(x), Tail(y))

\* String.prototype.localeCompare
localeCompare(x, y) ==
    LET px == [i \in 1..Len(x) |-> Primary(x[i])]
        py == [i \in 1..Len(y) |-> Primary(y[i])]
        tx == [i \in 1..Len(x) |-> Tertiary(x[i])]
        ty == [i \in 1..Len(y) |-> Tertiary(y[i])]
    IN IF LexCompare(px, py) # 0 THEN LexCompare(px, py) ELSE LexCompare(tx, ty)

\* The comparison functions of TaskManager.sortTasks.
compare(a, b, sortBy) ==
    CASE sortBy = "dueDate" ->
           IF a.dueDate = null /\ b.dueDate = null THEN 0
           ELSE IF a.dueDate = null THEN 1
           ELSE IF b.dueDate = null THEN -1
           ELSE Sign(a.dueDate - b.dueDate)
      [] sortBy = "priority" ->
           IF IsNamedPriority(a.priority) /\ IsNamedPriority(b.priority)
           THEN Sign(priorityOrder(a.priority) - priorityOrder(b.priority))
           ELSE 0
      [] sortBy = "alphabetical" -> localeCompare(a.title, b.title)
      [] OTHER -> Sign(b.createdAt - a.createdAt)

\* Array.prototype.sort is stable: x is placed after every element that does
\* not compare greater than it.
RECURSIVE sortInsert(_, _, _, _)
sortInsert(ts, sorted, x, sortBy) ==
    IF sorted # <<>> /\ compare(ts[sorted[Len(sorted)]], ts[x], sortBy) > 0
    THEN Append(sortInsert(ts, SubSeq(sorted, 1, Len(sorted) - 1), x, sortBy),
                sorted[Len(sorted)])
    ELSE Append(sorted, x)

RECURSIVE sortFrom(_, _, _, _)
sortFrom(ts, sorted, rest, sortBy) ==
    IF rest = <<>> THEN sorted
    ELSE sortFrom(ts, sortInsert(ts, sorted, Head(rest), sortBy), Tail(rest), sortBy)

\* TaskManager.sortTasks over an array of Task objects of the collection.
sortTasks(ts, refs, sortBy) == sortFrom(ts, <<>>, refs, sortBy)

\* Numbers are IEEE 754 doubles.  A double is written as the bits of an
\* integer, most significant first, and a scale: its value is that integer
\* divided by 2^scale.  Zero has no bits.
MantissaBits == 53
DivisionBits == MantissaBits + 11

\* bits without its leading zeros
StripZeros(bits) ==
    LET ones == {k \in 1..Len(bits) : bits[k] = 1}
    IN IF ones = {} THEN <<>>
       ELSE SubSeq(bits, CHOOSE k \in ones : \A j \in ones : k <= j, Len(bits))

PadLeft(bits, n) == [k \in 1..(n - Len(bits)) |-> 0] \o bits

\* bits + 1: the last zero becomes one and the ones after it zero
Increment(bits) ==
    LET zeros == {k \in 1..Len(bits) : bits[k] = 0}
        last == CHOOSE k \in zeros : \A j \in zeros : j <= k
    IN IF zeros = {} THEN <<1>> \o [k \in 1..Len(bits) |-> 0]
       ELSE [k \in 1..Len(bits) |->
               IF k < last THEN bits[k] ELSE IF k = last THEN 1 ELSE 0]

\* The carry into position k of x + y, for two bit sequences of one length:
\* some position to the right produces a carry and every position between
\* passes it on.
Carry(x, y, k) ==
    \E j \in (k + 1)..Len(x) :
        /\ x[j] = 1 /\ y[j] = 1
        /\ \A i \in (k + 1)..(j - 1) : x[i] + y[i] >= 1

\* x + y
AddBits(x, y) ==
    LET n == IF Len(x) > Len(y) THEN Len(x) ELSE Len(y)
        px == PadLeft(x, n)
        py == PadLeft(y, n)
        c(k) == IF Carry(px, py, k) THEN 1 ELSE 0
    IN <<c(0)>> \o [k \in 1..n |-> (px[k] + py[k] + c(k)) % 2]

\* Rounding of the exact value bits / 2^scale (plus something smaller than
\* its last bit when sticky) to the nearest double, ties to even.
RoundToDouble(bits, scale, sticky) ==
    LET significant == StripZeros(bits)
        n == Len(significant)
    IN IF n <= MantissaBits
       THEN [bits |-> significant, scale |-> scale]
       ELSE LET kept == SubSeq(significant, 1, MantissaBits)
                guard == significant[MantissaBits + 1]
                below == sticky \/ \E k \in (MantissaBits + 2)..n : significant[k] = 1
                up == guard = 1 /\ (below \/ kept[MantissaBits] = 1)
            IN [bits |-> IF up THEN Increment(kept) ELSE kept,
                scale |-> scale - (n - MantissaBits)]

\* The eight bits of a number below 256.
Byte(v) == [k \in 1..8 |-> (v \div 2^(8 - k)) % 2]

\* The first n bits after the binary point of r / t, for r < t and n a
\* multiple of eight: long division, eight bits at a step.
RECURSIVE DivideBits(_, _, _)
DivideBits(r, t, n) ==
    IF n = 0 THEN <<>>
    ELSE Byte((256 * r) \div t) \o DivideBits((256 * r) % t, t, n - 8)

\* What is left of r / t after these n bits.
RECURSIVE DivideRemainder(_, _, _)
DivideRemainder(r, t, n) ==
    IF n = 0 THEN r ELSE DivideRemainder((256 * r) % t, t, n - 8)

\* completed / total, for 0 <= completed <= total and total > 0
NumberDivide(completed, total) ==
    IF completed = total THEN [bits |-> <<1>>, scale |-> 0]
    ELSE RoundToDouble(DivideBits(completed, total, DivisionBits), DivisionBits,
                       DivideRemainder(completed, total, DivisionBits) # 0)

\* x * 100: 100 is 64 + 32 + 4
NumberTimes100(x) ==
    LET times64 == x.bits \o <<0, 0, 0, 0, 0, 0>>
        times32 == x.bits \o <<0, 0, 0, 0, 0>>
        times4 == x.bits \o <<0, 0>>
    IN RoundToDouble(AddBits(AddBits(times64, times32), times4), x.scale, FALSE)

\* The integer a bit sequence writes.
RECURSIVE BitsValue(_)
BitsValue(bits) ==
    IF bits = <<>> THEN 0
    ELSE 2 * BitsValue(SubSeq(bits, 1, Len(bits) - 1)) + bits[Len(bits)]

\* Math.round of a double x >= 0: the nearest integer, a half going up.
MathRound(x) ==
    IF x.scale <= 0
    THEN BitsValue(x.bits \o [k \in 1..(0 - x.scale) |-> 0])
    ELSE LET padded == PadLeft(x.bits, x.scale + 1)
             whole == SubSeq(padded, 1, Len(padded) - x.scale)
             half == padded[Len(padded) - x.scale + 1]
         IN BitsValue(whole) + half

\* total > 0 ? Math.round((completed / total) * 100) : 0
completionRate(completed, total) ==
    IF total > 0
    THEN MathRound(NumberTimes100(NumberDivide(completed, total)))
    ELSE 0

\* TaskManager.getStats
getStats(ts, t, z) ==
    LET total == Len(ts)
        completed == Len(SelectSeq(Indices(ts), LAMBDA i : ts[i].isComplete))
        pending == total - completed
        overdue == Len(SelectSeq(Indices(ts), LAMBDA i : isOverdue(ts[i], t, z)))
    IN [total |-> total, completed |-> completed, pending |-> pending,
        overdue |-> overdue, completionRate |-> completionRate(completed, total)]

RetStats(st) ==
    [kind |-> "stats", refs |-> <<>>, num |-> 0, bool |-> FALSE, array |-> "none",
     stats |-> st]

\* A query changes nothing of the repository and calls no Storage function.
QueryFrame == UNCHANGED tasks /\ NoStorageCall /\ UNCHANGED env

GetById ==
    \E taskId \in TaskIds :
      LET i == getTaskById(tasks, taskId)
      IN /\ Observed("getTaskById", [taskId |-> taskId],
                     IF i = 0 THEN RetUndefined ELSE RetTask(i), "none")
         /\ QueryFrame

\* filterTasks answering 'completed' with every task.
FilterCompletedAsAll ==
    \E filter \in Filters \cup {"other"} :
      /\ Observed("filterTasks", [filter |-> filter],
                  RetArray(filterTasks(tasks,
                                       IF filter = "completed" THEN "all" ELSE filter,
                                       now, tz)), "none")
      /\ QueryFrame

\* TaskManager.filterTasks
Filter ==
    \E filter \in Filters \cup {"other"} :
      /\ Observed("filterTasks", [filter |-> filter],
                  RetArray(filterTasks(tasks, filter, now, tz)), "none")
      /\ QueryFrame

\* searchTasks comparing the title as it is written.
SearchCaseSensitive ==
    \E query \in Queries :
      /\ Observed("searchTasks", [query |-> query],
                  RetArray(IF trim(query) = <<>>
                           THEN Indices(tasks)
                           ELSE SelectSeq(Indices(tasks),
                                  LAMBDA i : includes(tasks[i].title,
                                                      trim(toLowerCase(query))))),
                  "none")
      /\ QueryFrame

\* TaskManager.searchTasks
Search ==
    \E query \in Queries :
      /\ Observed("searchTasks", [query |-> query],
                  RetArray(searchTasks(tasks, query)), "none")
      /\ QueryFrame

\* sortTasks with a sort that is not stable: elements that compare equal
\* come out in the reverse of their input order.
SortUnstable ==
    \E sortBy \in SortKeys :
      /\ op = "filterTasks" /\ arg.filter \in {"all", "pending"}
      /\ LET n == Len(ret.refs)
             reversed == [k \in 1..n |-> ret.refs[n + 1 - k]]
         IN Observed("sortTasks", [tasks |-> ret.refs, sortBy |-> sortBy],
                     RetArray(sortTasks(tasks, reversed, sortBy)), "none")
      /\ QueryFrame

\* sortTasks sorting the array it was given instead of a copy.
SortInPlace ==
    \E sortBy \in SortKeys :
      /\ op = "filterTasks" /\ arg.filter \in {"all", "pending"}
      /\ LET sortedTasks == sortTasks(tasks, ret.refs, sortBy)
         IN Observed("sortTasks", [tasks |-> sortedTasks, sortBy |-> sortBy],
                     Ret("array", sortedTasks, 0, FALSE, "argument"), "none")
      /\ QueryFrame

\* TaskManager.sortTasks on the array the caller got from filterTasks.
Sort ==
    \E sortBy \in SortKeys :
      /\ op = "filterTasks" /\ arg.filter \in {"all", "pending"}
      /\ Observed("sortTasks", [tasks |-> ret.refs, sortBy |-> sortBy],
                  RetArray(sortTasks(tasks, ret.refs, sortBy)), "none")
      /\ QueryFrame

\* getStats counting every task as pending.
StatsPendingIsTotal ==
    /\ Observed("getStats", <<>>,
                RetStats([getStats(tasks, now, tz) EXCEPT !.pending = Len(tasks)]),
                "none")
    /\ QueryFrame

\* TaskManager.getStats
Stats ==
    /\ Observed("getStats", <<>>, RetStats(getStats(tasks, now, tz)), "none")
    /\ QueryFrame

Next ==
    \/ Initialize
    \/ Add
    \/ Update
    \/ ToggleComplete
    \/ Delete
    \/ ClearCompleted
    \/ ClearAll

Spec == Init /\ [][Next]_vars

\* The repository where Update is also called with an empty category.
NextStore ==
    \/ Next
    \/ UpdateEmptyCategory

SpecStore == Init /\ [][NextStore]_vars

\* The repository with its query operations.
NextQuery ==
    \/ Next
    \/ GetById
    \/ Filter
    \/ Search
    \/ Sort
    \/ Stats

SpecQuery == Init /\ [][NextQuery]_vars

\* ------------------------------------------------------------------ views
\* taskData of the records the views are computed over: with and without a
\* due date, complete and not, in upper and lower case, created at
\* different times, one with a priority that priorityOrder does not name.
ViewData ==
    {Data("a", <<"a", "B">>, "high", "work", 1, FALSE, null),
     [Data("b", <<"B">>, "low", "", 3, FALSE, null) EXCEPT !.createdAt = 1],
     Data("c", <<"a">>, "", "", null, FALSE, null),
     [Data("d", <<>>, "medium", "", 1, TRUE, StartClock) EXCEPT !.createdAt = 2],
     Data("e", <<"b", " ", "A">>, "urgent", "", null, TRUE, null)}

\* The Task objects built from them.
ViewRecords == {Task(taskData, StartClock, "r1") : taskData \in ViewData}

\* The collections of at most MaxViewTasks of these records.
ViewCollections == UNION {[1..n -> ViewRecords] : n \in 0..MaxViewTasks}

\* A repository holding one of these collections, persisted, in one of the
\* time zones.
InitView ==
    /\ tasks \in ViewCollections
    /\ available = TRUE
    /\ localStorage = JSONstringify([i \in 1..Len(tasks) |-> toJSON(tasks[i])])
    /\ now = StartClock
    /\ tz \in TzOffsets
    /\ op = "new" /\ arg = <<>> /\ ret = RetUndefined /\ threw = "none"
    /\ saveCalls = 0 /\ clearCalls = 0 /\ saved = <<>> /\ storageOk = "none"
    /\ AppNotStarted

\* The query operations alone.
NextView ==
    \/ GetById
    \/ Filter
    \/ Search
    \/ Sort
    \/ Stats

SpecView == InitView /\ [][NextView]_vars

\* ---- A session that starts with nothing stored ----

\* The page is opened in a browser where localStorage is usable and holds
\* nothing: every record of the collection is one that Add made.
InitSession ==
    /\ tasks = <<>>
    /\ available = TRUE
    /\ localStorage = NoItem
    /\ now = StartClock
    /\ tz = 0
    /\ op = "new" /\ arg = <<>> /\ ret = RetUndefined /\ threw = "none"
    /\ saveCalls = 0 /\ clearCalls = 0 /\ saved = <<>> /\ storageOk = "none"
    /\ AppNotStarted

SpecSession == InitSession /\ [][Next]_vars

\* ---- The statistics of long collections ----

\* The k-th record of a long collection.
RateRecord(k, isComplete) ==
    Task(Data("task_" \o ToString(k), <<"a">>, "medium", "", null, isComplete,
              IF isComplete THEN StartClock ELSE null),
         StartClock, "r1")

\* The collection of total records whose first completed are complete.
RateCollection(completed, total) ==
    [k \in 1..total |-> RateRecord(k, k <= completed)]

\* A repository holding, persisted, a collection of at most MaxRateTasks
\* records of which any number is complete.
InitRate ==
    /\ \E total \in 0..MaxRateTasks : \E completed \in 0..total :
          tasks = RateCollection(completed, total)
    /\ available = TRUE
    /\ localStorage = JSONstringify([i \in 1..Len(tasks) |-> toJSON(tasks[i])])
    /\ now = StartClock
    /\ tz = 0
    /\ op = "new" /\ arg = <<>> /\ ret = RetUndefined /\ threw = "none"
    /\ saveCalls = 0 /\ clearCalls = 0 /\ saved = <<>> /\ storageOk = "none"
    /\ AppNotStarted

NextRate == Stats

SpecRate == InitRate /\ [][NextRate]_vars

\* ----------------------------------------------------------------- caller
\* The caller of a query keeps what the query returned.  A returned array is
\* a new array; the Task objects in it, and the one getTaskById returns, are
\* the objects of TaskManager.tasks themselves.
IsQuery(o) == o \in {"getTaskById", "filterTasks", "searchTasks", "sortTasks"}

\* The caller reverses the returned array or removes its last element.
CallerChangesArray ==
    /\ IsQuery(op) /\ ret.kind = "array" /\ Len(ret.refs) > 0
    /\ \E change \in {"reverse", "pop"} :
         LET n == Len(ret.refs)
             refs == IF change = "pop" THEN SubSeq(ret.refs, 1, n - 1)
                     ELSE [i \in 1..n |-> ret.refs[n + 1 - i]]
         IN /\ ret' = [ret EXCEPT !.refs = refs]
            /\ tasks' = IF ret.array = "tasks"
                        THEN [i \in 1..Len(refs) |-> tasks[refs[i]]]
                        ELSE tasks
            /\ op' = "caller" /\ arg' = [change |-> change]
    /\ UNCHANGED <<localStorage, env, threw, saveCalls, clearCalls, saved, storageOk>>

\* The caller assigns a field of a returned Task object or calls its
\* toggleComplete method.
CallerChangesRecord ==
    /\ IsQuery(op) /\ Len(ret.refs) > 0
    /\ \E k \in 1..Len(ret.refs), change \in {"title", "toggleComplete"} :
         LET i == ret.refs[k]
         IN /\ tasks' = [tasks EXCEPT ![i] =
                           IF change = "title" THEN [@ EXCEPT !.title = <<>>]
                           ELSE toggleComplete(@, now)]
            /\ op' = "caller" /\ arg' = [change |-> change]
    /\ UNCHANGED <<localStorage, env, ret, threw, saveCalls, clearCalls, saved,
                   storageOk>>

NextCaller ==
    \/ NextQuery
    \/ CallerChangesArray
    \/ CallerChangesRecord

\* The page is opened where localStorage cannot be used: the repository
\* works in memory only.
InitCaller == Init /\ ~available

SpecCaller == InitCaller /\ [][NextCaller]_vars

\* -------------------------------------------------------------------- App
\* The page: the handlers of App run one at a time, each to its end, and the
\* callbacks they give to setTimeout run later, between other handlers.  Of
\* the document nothing is kept but the toast: every handler that changes the
\* collection renders the task list before it returns, so the task items the
\* user can click are at every moment items of tasks of the collection.  The
\* callbacks of showToast and openEditModal change the document only.

\* What the user types in a title field.
TitleValues == {<<" ">>, <<"B">>}

\* The filter buttons the user clicks.
AppFilters == {"all", "pending"}

\* The task an earlier session of the page added through the form.
EarlierTask ==
    Task(Data("", <<"a">>, "medium", "personal", null, FALSE, null),
         StartClock - 1, "r1")

\* What an earlier session of the page left in localStorage.
AppStores == {NoItem, JSONstringify(<<toJSON(EarlierTask)>>)}

\* App.showToast: of the toast, the type is kept.
Toast(message, type) == type

\* The ids of the task items that the task list may show.
TaskItems == {tasks[i].id : i \in 1..Len(tasks)}

\* setTimeout(callback, 250) of handleDeleteTask
DeleteTimer(taskId) == [callback |-> "deleteTask", taskId |-> taskId]

\* setTimeout(callback, 300) of handleTaskCheckbox
RenderTimer == [callback |-> "renderTasks", taskId |-> NoId]

\* The k-th of the callbacks that have not run may run now: no callback set
\* earlier with the same or a shorter delay is waiting.
MayRun(k) ==
    \A j \in 1..(k - 1) :
        timers[j].callback = "renderTasks" /\ timers[k].callback = "deleteTask"

\* timers without its k-th callback
Without(k) == SubSeq(timers, 1, k - 1) \o SubSeq(timers, k + 1, Len(timers))

\* The page is opened in a browser where an earlier session of the page
\* may have saved a task.
InitApp ==
    /\ tasks = <<>>
    /\ \/ available = FALSE /\ localStorage = NoItem
       \/ available = TRUE /\ localStorage \in AppStores
    /\ now = StartClock
    /\ tz = 0
    /\ op = "new" /\ arg = <<>> /\ ret = RetUndefined /\ threw = "none"
    /\ saveCalls = 0 /\ clearCalls = 0 /\ saved = <<>> /\ storageOk = "none"
    /\ AppNotStarted

\* A handler that calls no operation of TaskManager that changes the
\* collection: of the handler, the name is kept.
Handled(handler, a) ==
    /\ Observed(handler, a, RetUndefined, "none")
    /\ NoStorageCall
    /\ UNCHANGED tasks

\* App.init, on DOMContentLoaded
init ==
    /\ op = "new"
    /\ LET storedTasks == getTasks(localStorage, available)
       IN tasks' = [i \in 1..Len(storedTasks) |-> Task(storedTasks[i], now, "r1")]
    /\ Observed("init", <<>>, RetUndefined, "none")
    /\ NoStorageCall
    /\ UNCHANGED env

\* App.handleFormSubmit.  Date.now() is later at every submission, so that
\* generateId gives the new task an id that no task had before.
handleFormSubmit ==
    /\ op # "new"
    /\ \E value \in TitleValues :
         LET title == trim(value)
             taskData == Data("", title, "high", "work", null, FALSE, null)
         IN IF title = <<>>
            THEN /\ Handled("handleFormSubmit", <<>>)
                 /\ toast' = Toast("Please enter a task title", "error")
                 /\ UNCHANGED now
            ELSE /\ Len(tasks) < MaxTasks
                 /\ now < StartClock + MaxAppAdds
                 /\ addTask(taskData, "r1")
                 /\ toast' = Toast("Task added successfully!", "success")
                 /\ now' = now + 1
    /\ UNCHANGED <<available, tz, editingTaskId, currentFilter, timers>>

\* App.handleFilter
handleFilter ==
    /\ op # "new"
    /\ \E filter \in AppFilters :
         /\ Handled("handleFilter", <<>>)
         /\ currentFilter' = filter
    /\ UNCHANGED <<available, now, tz, editingTaskId, timers, toast>>

\* App.handleTaskCheckbox, on a checkbox of the task list
handleTaskCheckbox ==
    /\ op # "new"
    /\ \E taskId \in TaskItems :
         /\ toggleTaskComplete(taskId)
         /\ IF ret'.kind = "task"
            THEN /\ toast' = Toast("Task completed! or Task marked as pending",
                                   "success")
                 /\ IF currentFilter # "all"
                    THEN /\ Len(timers) < MaxTimers
                         /\ timers' = Append(timers, RenderTimer)
                    ELSE UNCHANGED timers
            ELSE UNCHANGED <<toast, timers>>
    /\ UNCHANGED <<available, now, tz, editingTaskId, currentFilter>>

\* App.handleDeleteTask, on a delete button of the task list, when the
\* user confirms; it does nothing when the user does not.
handleDeleteTask ==
    /\ op # "new"
    /\ \E taskId \in TaskItems :
         /\ Handled("handleDeleteTask", <<>>)
         /\ Len(timers) < MaxTimers
         /\ timers' = Append(timers, DeleteTimer(taskId))
    /\ UNCHANGED <<available, now, tz, editingTaskId, currentFilter, toast>>

\* The callback of handleDeleteTask taking the task out of the collection
\* without persisting.
deferredDeleteUnsaved ==
    \E k \in 1..Len(timers) :
      LET taskId == timers[k].taskId
          newTasks == SelectSeq(tasks, LAMBDA task : task.id # taskId)
      IN /\ MayRun(k)
         /\ timers[k].callback = "deleteTask"
         /\ tasks' = newTasks
         /\ NoStorageCall
         /\ Observed("deleteTask", [taskId |-> taskId],
                     RetBoolean(Len(newTasks) < Len(tasks)), "none")
         /\ timers' = Without(k)
         /\ IF ret'.bool
            THEN toast' = Toast("Task deleted", "success")
            ELSE UNCHANGED toast
         /\ UNCHANGED <<available, now, tz, editingTaskId, currentFilter>>

\* The callback that handleDeleteTask gave to setTimeout
deferredDelete ==
    \E k \in 1..Len(timers) :
      /\ MayRun(k)
      /\ timers[k].callback = "deleteTask"
      /\ deleteTask(timers[k].taskId)
      /\ timers' = Without(k)
      /\ IF ret'.bool
         THEN toast' = Toast("Task deleted", "success")
         ELSE UNCHANGED toast
      /\ UNCHANGED <<available, now, tz, editingTaskId, currentFilter>>

\* The callback that handleTaskCheckbox gave to setTimeout
deferredRender ==
    \E k \in 1..Len(timers) :
      /\ MayRun(k)
      /\ timers[k].callback = "renderTasks"
      /\ Handled("renderTasks", <<>>)
      /\ timers' = Without(k)
      /\ UNCHANGED <<available, now, tz, editingTaskId, currentFilter, toast>>

\* App.handleClearCompleted, when the user confirms if asked; it does
\* nothing when the user does not.
handleClearCompleted ==
    /\ op # "new"
    /\ LET completedCount == getStats(tasks, now, tz).completed
       IN IF completedCount = 0
          THEN /\ Handled("handleClearCompleted", <<>>)
               /\ toast' = Toast("No completed tasks to clear", "error")
          ELSE /\ clearCompleted
               /\ toast' = Toast("task(s) cleared", "success")
    /\ UNCHANGED <<available, now, tz, editingTaskId, currentFilter, timers>>

\* App.handleClearAll, when the user confirms if asked; it does nothing
\* when the user does not.
handleClearAll ==
    /\ op # "new"
    /\ LET totalCount == getStats(tasks, now, tz).total
       IN IF totalCount = 0
          THEN /\ Handled("handleClearAll", <<>>)
               /\ toast' = Toast("No tasks to clear", "error")
          ELSE /\ clearAll
               /\ toast' = Toast("All task(s) deleted", "success")
    /\ UNCHANGED <<available, now, tz, editingTaskId, currentFilter, timers>>

\* App.openEditModal, on an edit button of the task list
openEditModal ==
    /\ op # "new"
    /\ \E taskId \in TaskItems :
         /\ Handled("openEditModal", <<>>)
         /\ IF getTaskById(tasks, taskId) = 0
            THEN /\ toast' = Toast("Task not found", "error")
                 /\ UNCHANGED editingTaskId
            ELSE /\ editingTaskId' = taskId
                 /\ UNCHANGED toast
    /\ UNCHANGED <<available, now, tz, currentFilter, timers>>

\* App.closeModal
closeModal ==
    /\ op # "new"
    /\ Handled("closeModal", <<>>)
    /\ editingTaskId' = NoId
    /\ UNCHANGED <<available, now, tz, currentFilter, timers, toast>>

\* handleEditSubmit reporting success whatever updateTask returned.
handleEditSubmitAlwaysSucceeds ==
    /\ op # "new"
    /\ LET taskId == editingTaskId
       IN IF taskId = NoId
          THEN /\ Handled("handleEditSubmit", <<>>)
               /\ toast' = Toast("No task selected for editing", "error")
               /\ UNCHANGED editingTaskId
          ELSE \E value \in TitleValues :
                 LET title == trim(value)
                     updates == Partial({"title", "priority", "category", "dueDate"},
                                        title)
                 IN IF title = <<>>
                    THEN /\ Handled("handleEditSubmit", <<>>)
                         /\ toast' = Toast("Please enter a task title", "error")
                         /\ UNCHANGED editingTaskId
                    ELSE /\ updateTask(taskId, updates)
                         /\ editingTaskId' = NoId
                         /\ toast' = Toast("Task updated successfully!", "success")
    /\ UNCHANGED <<available, now, tz, currentFilter, timers>>

\* App.handleEditSubmit
handleEditSubmit ==
    /\ op # "new"
    /\ LET taskId == editingTaskId
       IN IF taskId = NoId
          THEN /\ Handled("handleEditSubmit", <<>>)
               /\ toast' = Toast("No task selected for editing", "error")
               /\ UNCHANGED editingTaskId
          ELSE \E value \in TitleValues :
                 LET title == trim(value)
                     updates == Partial({"title", "priority", "category", "dueDate"},
                                        title)
                 IN IF title = <<>>
                    THEN /\ Handled("handleEditSubmit", <<>>)
                         /\ toast' = Toast("Please enter a task title", "error")
                         /\ UNCHANGED editingTaskId
                    ELSE /\ updateTask(taskId, updates)
                         /\ IF ret'.kind = "task"
                            THEN /\ editingTaskId' = NoId
                                 /\ toast' = Toast("Task updated successfully!",
                                                   "success")
                            ELSE /\ toast' = Toast("Failed to update task", "error")
                                 /\ UNCHANGED editingTaskId
    /\ UNCHANGED <<available, now, tz, currentFilter, timers>>

NextApp ==
    \/ init
    \/ handleFormSubmit
    \/ handleFilter
    \/ handleTaskCheckbox
    \/ handleDeleteTask
    \/ deferredDelete
    \/ deferredRender
    \/ handleClearCompleted
    \/ handleClearAll
    \/ openEditModal
    \/ closeModal
    \/ handleEditSubmit

SpecApp == InitApp /\ [][NextApp]_vars

\* ----------------------------------------------------------------- claims
\* A title that is missing, empty or all white space.
BlankTitle(title) == title = Undefined \/ trim(title) = <<>>

\* No task of the collection ts has the id taskId.
NoSuchTask(ts, taskId) == \A i \in 1..Len(ts) : ts[i].id # taskId

\* The plain records of the collection ts, in collection order.
Serialization(ts) ==
    [i \in 1..Len(ts) |->
       [id |-> ts[i].id, title |-> ts[i].title, priority |-> ts[i].priority,
        category |-> ts[i].category, dueDate |-> ts[i].dueDate,
        isComplete |-> ts[i].isComplete, createdAt |-> ts[i].createdAt,
        completedAt |-> ts[i].completedAt]]

\* C1: in every reachable state no two records of the collection have the
\* same id.
C1_UniqueIds ==
    \A i, j \in 1..Len(tasks) : i # j => tasks[i].id # tasks[j].id

\* C2: in every reachable state every record has completedAt non-null if and
\* only if isComplete is true.
C2_CompletedAtIffComplete ==
    \A i \in 1..Len(tasks) : (tasks[i].completedAt # null) <=> tasks[i].isComplete

\* C3: in every reachable state every record's title is non-empty after
\* trimming.
C3_TitleNeverBlank ==
    \A i \in 1..Len(tasks) : trim(tasks[i].title) # <<>>

\* C4: Add with a missing, empty or all-whitespace title fails with a
\* ValidationError, leaves the collection as it was and does not call save.
C4_AddBlankTitleRejected ==
    [][(op' = "addTask" /\ BlankTitle(arg'.title))
         => /\ threw' = "ValidationError"
            /\ tasks' = tasks
            /\ saveCalls' = 0
            /\ localStorage' = localStorage]_vars

\* C5: Update of an existing record with a partial whose title is empty after
\* trimming fails with a ValidationError and leaves the record, the
\* collection and the persisted state unchanged.
C5_UpdateBlankTitleRejected ==
    [][(/\ op' = "updateTask"
        /\ ~NoSuchTask(tasks, arg'.taskId)
        /\ "title" \in arg'.updates.keys
        /\ arg'.updates.title # Undefined
        /\ trim(arg'.updates.title) = <<>>)
         => /\ threw' = "ValidationError"
            /\ tasks' = tasks
            /\ localStorage' = localStorage]_vars

\* C6: Update, ToggleComplete and Delete with an id of no record leave the
\* collection unchanged, call no Storage function and return the not-found
\* signal: null for Update and ToggleComplete, false for Delete.
C6_NotFoundNoEffect ==
    [][(/\ op' \in {"updateTask", "toggleTaskComplete", "deleteTask"}
        /\ NoSuchTask(tasks, arg'.taskId))
         => /\ tasks' = tasks
            /\ saveCalls' = 0 /\ clearCalls' = 0
            /\ localStorage' = localStorage
            /\ threw' = "none"
            /\ ret' = IF op' = "deleteTask" THEN RetBoolean(FALSE) ELSE RetNull]_vars

\* C6 witness: a Delete of an id of no record ran on a non-empty collection.
C6_Witness ==
    /\ op = "deleteTask" /\ NoSuchTask(tasks, arg.taskId)
    /\ Len(tasks) > 0

\* An operation that changed the collection and has to persist it.
SuccessfulMutation ==
    \/ op = "addTask" /\ threw = "none"
    \/ op \in {"updateTask", "toggleTaskComplete"} /\ ret.kind = "task"
    \/ op = "deleteTask" /\ ret.bool
    \/ op = "clearCompleted" /\ ret.num > 0

\* C7: every successful Add, Update, ToggleComplete, removing Delete and
\* removing ClearCompleted calls save exactly once, with the serialization of
\* the collection as it is after the change, in collection order.
C7_SavesOnceFullCollection ==
    SuccessfulMutation
      => /\ saveCalls = 1 /\ clearCalls = 0
         /\ saved = Serialization(tasks)

\* C7 witness: an Add put a second record in front of another and saved.
C7_Witness ==
    /\ op = "addTask" /\ threw = "none" /\ Len(tasks) = 2
    /\ tasks[1] # tasks[2]

\* C8: when save or clear fails during a mutating operation the in-memory
\* change is kept and the failure is reported to the caller of the operation.
C8_PersistenceFailureReported ==
    storageOk = "false"
      => /\ saveCalls = 1 => saved = Serialization(tasks)
         /\ clearCalls = 1 => tasks = <<>>
         /\ ~(threw = "none" /\ ret.kind \in {"task", "boolean", "number"})

\* A stored entry that is a valid task record.
ValidEntry(entry) == entry # NullEntry /\ ~BlankTitle(entry.title)

\* C9: Initialize over a stored list with invalid entries does not fail; the
\* invalid entries are dropped and the valid ones become the collection, in
\* stored order.
C9_InitializeDropsInvalid ==
    op = "init"
      => LET valid == SelectSeq(getTasks(localStorage, available), ValidEntry)
         IN /\ threw = "none"
            /\ Len(tasks) = Len(valid)
            /\ \A k \in 1..Len(valid) :
                 /\ tasks[k].title = trim(valid[k].title)
                 /\ valid[k].id # "" => tasks[k].id = valid[k].id

\* C10: no change a caller makes to a value a query returned (to the
\* returned array or to a record in it) changes the collection.
C10_QueryResultsIndependent ==
    [][(IsQuery(op) /\ op' = "caller") => tasks' = tasks]_vars

\* C11: a successful Add places the new record at index 0, makes the
\* collection one longer, keeps every record that was there unchanged and in
\* the same relative order, and returns the record it inserted.
C11_AddInsertsAtFront ==
    [][(op' = "addTask" /\ threw' = "none")
         => /\ Len(tasks') = Len(tasks) + 1
            /\ \E r \in RandomSuffixes : tasks'[1] = Task(arg', now, r)
            /\ \A i \in 1..Len(tasks) : tasks'[i + 1] = tasks[i]
            /\ ret' = RetTask(1)]_vars

\* C11 witness: an Add returned, and the record it built stands in front of
\* an older record that differs from it.
C11_Witness ==
    /\ op = "addTask" /\ threw = "none" /\ ret = RetTask(1)
    /\ Len(tasks) = 2
    /\ tasks[1].title = trim(arg.title)
    /\ tasks[2].title # tasks[1].title

\* The fields Task.update may assign.
UpdatableFields == {"title", "priority", "category", "dueDate"}

\* The value of the field named key in the record task.
Field(task, key) ==
    CASE key = "title" -> task.title
      [] key = "priority" -> task.priority
      [] key = "category" -> task.category
      [] OTHER -> task.dueDate

\* C12: Update changes only title, priority, category and dueDate of the
\* targeted record, and of these only the ones the partial names; the
\* record's id, createdAt, isComplete and completedAt, the collection order
\* and every other record are unchanged, whatever the partial names.
C12_UpdateFrame ==
    [][(op' = "updateTask")
         => LET target == getTaskById(tasks, arg'.taskId)
            IN /\ Len(tasks') = Len(tasks)
               /\ \A j \in 1..Len(tasks) :
                    IF j = target
                    THEN /\ tasks'[j].id = tasks[j].id
                         /\ tasks'[j].createdAt = tasks[j].createdAt
                         /\ tasks'[j].isComplete = tasks[j].isComplete
                         /\ tasks'[j].completedAt = tasks[j].completedAt
                         /\ \A key \in UpdatableFields \ arg'.updates.keys :
                              Field(tasks'[j], key) = Field(tasks[j], key)
                    ELSE tasks'[j] = tasks[j]]_vars

\* C12 witness: an Update whose partial names id, createdAt, isComplete and
\* completedAt but not title returned a completed record, next to another
\* record.
C12_Witness ==
    /\ op = "updateTask" /\ ret.kind = "task"
    /\ {"id", "createdAt", "isComplete", "completedAt"} \subseteq arg.updates.keys
    /\ "title" \notin arg.updates.keys
    /\ tasks[ret.refs[1]].isComplete
    /\ tasks[ret.refs[1]].title # <<>>
    /\ Len(tasks) = 2

\* C13: ToggleComplete of an existing record flips its isComplete, sets
\* completedAt to a non-null timestamp when the record becomes complete and
\* to null when it becomes incomplete, and changes nothing else: the other
\* fields of the record, the collection order and the other records stay,
\* and a second toggle gives the original isComplete back.
C13_ToggleFlips ==
    [][(op' = "toggleTaskComplete" /\ ~NoSuchTask(tasks, arg'.taskId))
         => LET target == getTaskById(tasks, arg'.taskId)
            IN /\ Len(tasks') = Len(tasks)
               /\ \A j \in 1..Len(tasks) :
                    IF j = target
                    THEN /\ tasks'[j].isComplete = ~tasks[j].isComplete
                         /\ tasks'[j].isComplete => tasks'[j].completedAt # null
                         /\ ~tasks'[j].isComplete => tasks'[j].completedAt = null
                         /\ [tasks'[j] EXCEPT !.isComplete = tasks[j].isComplete,
                                               !.completedAt = tasks[j].completedAt]
                              = tasks[j]
                         /\ toggleComplete(tasks'[j], now').isComplete
                              = tasks[j].isComplete
                    ELSE tasks'[j] = tasks[j]]_vars

\* C13 witness: a toggle made a completed record with a due date incomplete
\* again, next to another record.
C13_Witness ==
    /\ op = "toggleTaskComplete" /\ ret.kind = "task"
    /\ ~tasks[ret.refs[1]].isComplete
    /\ tasks[ret.refs[1]].completedAt = null
    /\ tasks[ret.refs[1]].dueDate # null
    /\ Len(tasks) = 2

\* C14: Delete with an id of the collection removes the matching record,
\* makes the collection exactly one shorter, keeps the other records
\* unchanged in their relative order, persists and returns true; with an id
\* of no record it returns false and does not persist.
C14_DeleteRemovesOne ==
    [][(op' = "deleteTask")
         => IF NoSuchTask(tasks, arg'.taskId)
            THEN /\ ret' = RetBoolean(FALSE)
                 /\ saveCalls' = 0
                 /\ tasks' = tasks
            ELSE LET target == getTaskById(tasks, arg'.taskId)
                 IN /\ ret' = RetBoolean(TRUE)
                    /\ saveCalls' = 1
                    /\ Len(tasks') = Len(tasks) - 1
                    /\ \A j \in 1..Len(tasks') :
                         tasks'[j] = IF j < target THEN tasks[j] ELSE tasks[j + 1]]_vars

\* The records of ts that are not complete, in the order of ts.
RECURSIVE Incomplete(_)
Incomplete(ts) ==
    IF ts = <<>> THEN <<>>
    ELSE IF Head(ts).isComplete THEN Incomplete(Tail(ts))
    ELSE <<Head(ts)>> \o Incomplete(Tail(ts))

\* C15: ClearCompleted removes every record with isComplete true and no
\* other, keeps the remaining records in their relative order, returns the
\* number of records removed and calls save if and only if that number is
\* greater than 0; Filter(completed) right afterwards returns no record.
C15_ClearCompletedRemovesComplete ==
    [][(op' = "clearCompleted")
         => /\ tasks' = Incomplete(tasks)
            /\ threw' = "none"
            /\ ret' = RetNumber(Len(tasks) - Len(tasks'))
            /\ saveCalls' = 1 <=> ret'.num > 0
            /\ saveCalls' \in {0, 1} /\ clearCalls' = 0
            /\ filterTasks(tasks', "completed", now', tz') = <<>>]_vars

\* C15 witness: ClearCompleted removed one of two records and kept the other.
C15_Witness ==
    /\ op = "clearCompleted" /\ ret.num = 1
    /\ Len(tasks) = 1 /\ ~tasks[1].isComplete
    /\ saveCalls = 1

\* C16: ClearAll returns the number of records the collection had, leaves
\* the collection empty, so that Stats().total is 0, and calls the clear
\* operation of Storage exactly once on every call, an empty collection
\* included, without calling save.
C16_ClearAllEmptiesAndClears ==
    [][(op' = "clearAll")
         => /\ ret' = RetNumber(Len(tasks))
            /\ threw' = "none"
            /\ tasks' = <<>>
            /\ getStats(tasks', now', tz').total = 0
            /\ clearCalls' = 1
            /\ saveCalls' = 0
            /\ available => localStorage' = NoItem]_vars

\* C16 witness: ClearAll ran on a collection that was empty already while
\* localStorage still held an array.
C16_Witness ==
    /\ op = "clearAll" /\ ret = RetNumber(0)
    /\ clearCalls = 1 /\ storageOk = "true"
    /\ localStorage = NoItem

\* The last operation was a mutating one.
MutatingOps ==
    {"addTask", "updateTask", "toggleTaskComplete", "deleteTask",
     "clearCompleted", "clearAll"}

\* C17: after a mutating operation whose storage call succeeded, what
\* Storage holds is the serialization of the collection (nothing after
\* ClearAll), and Initialize at that point gives a collection with the same
\* records, the same field values and the same order.
C17_StorageRoundTrip ==
    (op \in MutatingOps /\ storageOk = "true")
      => LET storedTasks == getTasks(localStorage, available)
         IN /\ localStorage = IF clearCalls = 1 THEN NoItem
                               ELSE JSONstringify(Serialization(tasks))
            /\ Len(storedTasks) = Len(tasks)
            /\ \A i \in 1..Len(storedTasks) :
                 /\ ~TaskThrows(storedTasks[i])
                 /\ \A r \in RandomSuffixes :
                      Task(storedTasks[i], now, r) = tasks[i]

\* refs holds exactly the records of the set S of indices, each once, in
\* collection order.
InCollectionOrder(refs, S) ==
    /\ \A p, q \in 1..Len(refs) : p < q => refs[p] < refs[q]
    /\ {refs[p] : p \in 1..Len(refs)} = S

\* The records of ts a criterion asks for.
Asked(ts, filter, t, z) ==
    {i \in 1..Len(ts) :
       CASE filter = "pending"   -> ts[i].isComplete = FALSE
         [] filter = "completed" -> ts[i].isComplete = TRUE
         [] filter = "overdue"   -> isOverdue(ts[i], t, z)
         [] OTHER                -> TRUE}

\* C18: Filter returns, in collection order, exactly every record for all,
\* the records with isComplete false for pending, those with isComplete true
\* for completed and those with IsOverdue() true for overdue; it leaves the
\* collection and the storage untouched, and the pending and completed
\* results together hold every record exactly once.
C18_FilterSelects ==
    [][(op' = "filterTasks" /\ arg'.filter \in Filters)
         => /\ threw' = "none"
            /\ ret'.kind = "array"
            /\ InCollectionOrder(ret'.refs, Asked(tasks, arg'.filter, now, tz))
            /\ tasks' = tasks
            /\ localStorage' = localStorage
            /\ saveCalls' = 0 /\ clearCalls' = 0
            /\ LET both == filterTasks(tasks, "pending", now, tz)
                             \o filterTasks(tasks, "completed", now, tz)
               IN /\ Len(both) = Len(tasks)
                  /\ {both[k] : k \in 1..Len(both)} = 1..Len(tasks)]_vars

\* C18 witness: Filter(completed) returned the first and the last of three
\* records and left out the one between them.
C18_Witness ==
    /\ op = "filterTasks" /\ arg.filter = "completed"
    /\ Len(tasks) = 3
    /\ ret.refs = <<1, 3>>
    /\ tasks[1] # tasks[3]

\* The characters c and d are the same letter in either case.
SameLetter(c, d) ==
    \/ c = d
    \/ {c, d} = {"a", "A"}
    \/ {c, d} = {"b", "B"}

\* The string s contains sub as a substring, cases ignored.
ContainsIgnoringCase(s, sub) ==
    \E k \in 0..(Len(s) - Len(sub)) :
      \A j \in 1..Len(sub) : SameLetter(s[k + j], sub[j])

\* C19: Search returns, in collection order, exactly the records whose
\* title contains the trimmed query, cases ignored; for an empty or
\* all-whitespace query it returns every record; it never changes the
\* collection and never fails.
C19_SearchMatches ==
    [][(op' = "searchTasks")
         => LET query == trim(arg'.query)
            IN /\ threw' = "none"
               /\ ret'.kind = "array"
               /\ InCollectionOrder(ret'.refs,
                     {i \in 1..Len(tasks) :
                        query = <<>> \/ ContainsIgnoringCase(tasks[i].title, query)})
               /\ tasks' = tasks
               /\ localStorage' = localStorage
               /\ saveCalls' = 0 /\ clearCalls' = 0]_vars

\* C19 witness: a query in lower case with white space around it found a
\* title in upper case and passed over a title without the letter.
C19_Witness ==
    /\ op = "searchTasks" /\ arg.query = <<" ", "b">>
    /\ Len(tasks) = 3
    /\ ret.refs = <<1, 3>>
    /\ tasks[1].title = <<"B">>
    /\ tasks[2].title = <<"a">>

\* The position of x in the sequence seq of distinct elements.
Position(seq, x) == CHOOSE k \in 1..Len(seq) : seq[k] = x

\* C20: Sort by dueDate returns the records in ascending order of due date,
\* every record without a due date after every record with one, and records
\* of equal key, those without a due date included, in their input order.
C20_SortByDueDate ==
    (op = "sortTasks" /\ arg.sortBy = "dueDate")
      => LET input == arg.tasks
             output == ret.refs
         IN /\ threw = "none"
            /\ Len(output) = Len(input)
            /\ {output[k] : k \in 1..Len(output)} = {input[k] : k \in 1..Len(input)}
            /\ \A p, q \in 1..Len(output) :
                 p < q =>
                   LET a == tasks[output[p]]
                       b == tasks[output[q]]
                   IN /\ a.dueDate = null => b.dueDate = null
                      /\ (a.dueDate # null /\ b.dueDate # null)
                           => a.dueDate <= b.dueDate
                      /\ a.dueDate = b.dueDate
                           => Position(input, output[p]) < Position(input, output[q])

\* C20 witness: a record without a due date stood before two different
\* records of one due date and was sorted behind them, the two in their
\* input order.
C20_Witness ==
    /\ op = "sortTasks" /\ arg.sortBy = "dueDate"
    /\ arg.tasks = <<1, 2, 3>>
    /\ ret.refs = <<2, 3, 1>>
    /\ tasks[1].dueDate = null
    /\ tasks[2].dueDate = tasks[3].dueDate
    /\ tasks[2] # tasks[3]

\* The priority p1 comes before the priority p2.
PriorityBefore(p1, p2) ==
    <<p1, p2>> \in {<<"high", "medium">>, <<"medium", "low">>, <<"high", "low">>}

\* C21: Sort by priority returns every high record before every medium
\* record and every medium record before every low record, records of equal
\* priority in their input order, for every sequence of records the
\* repository holds.
C21_SortByPriority ==
    (op = "sortTasks" /\ arg.sortBy = "priority")
      => LET input == arg.tasks
             output == ret.refs
         IN /\ threw = "none"
            /\ Len(output) = Len(input)
            /\ {output[k] : k \in 1..Len(output)} = {input[k] : k \in 1..Len(input)}
            /\ \A p, q \in 1..Len(output) :
                 p < q =>
                   LET a == tasks[output[p]]
                       b == tasks[output[q]]
                   IN /\ ~PriorityBefore(b.priority, a.priority)
                      /\ a.priority = b.priority
                           => Position(input, output[p]) < Position(input, output[q])

\* The sequences x and y of distinct elements hold the same elements.
Permutation(x, y) ==
    /\ Len(x) = Len(y)
    /\ {x[k] : k \in 1..Len(x)} = {y[k] : k \in 1..Len(y)}
    /\ \A j, k \in 1..Len(x) : j # k => x[j] # x[k]

\* C22: for every sort key and every input sequence x, Sort leaves x as it
\* was, returns a permutation of x, and Sort of the result by the same key
\* is the result.
C22_SortPermutesIdempotent ==
    [][(op' = "sortTasks")
         => /\ threw' = "none"
            /\ arg'.tasks = ret.refs
            /\ ret'.array = "fresh"
            /\ tasks' = tasks
            /\ Permutation(ret'.refs, ret.refs)
            /\ sortTasks(tasks', ret'.refs, arg'.sortBy) = ret'.refs]_vars

\* C22 witness: an alphabetical sort of three records returned them in
\* another order than it was given them.
C22_Witness ==
    /\ op = "sortTasks" /\ arg.sortBy = "alphabetical"
    /\ arg.tasks = <<1, 2, 3>>
    /\ ret.refs = <<3, 1, 2>>

\* C23: what Stats returns satisfies total = completed + pending, total is
\* the collection size, completed, pending and overdue are the sizes of
\* Filter(completed), Filter(pending) and Filter(overdue), and overdue is at
\* most pending.
C23_StatsRelations ==
    op = "getStats"
      => /\ threw = "none"
         /\ ret.stats.total = ret.stats.completed + ret.stats.pending
         /\ ret.stats.total = Len(tasks)
         /\ ret.stats.completed = Len(filterTasks(tasks, "completed", now, tz))
         /\ ret.stats.pending = Len(filterTasks(tasks, "pending", now, tz))
         /\ ret.stats.overdue = Len(filterTasks(tasks, "overdue", now, tz))
         /\ ret.stats.overdue <= ret.stats.pending

\* C23 witness: Stats ran on three records, one complete, one overdue and
\* one pending that is not overdue.
C23_Witness ==
    /\ op = "getStats"
    /\ ret.stats.total = 3
    /\ ret.stats.completed = 1
    /\ ret.stats.pending = 2
    /\ ret.stats.overdue = 1


\* The number a / b rounded to the nearest integer, a half going up.
RoundHalfUp(a, b) == (2 * a + b) \div (2 * b)

\* C24: the completion rate that Stats reports is 0 for an empty collection
\* and otherwise completed * 100 / total rounded to the nearest integer, a
\* half going up; it is an integer from 0 to 100, and it is 100 exactly when
\* the collection is not empty and every record is complete.
C24_CompletionRate ==
    op = "getStats" =>
        LET total == Len(tasks)
            completed == Cardinality({i \in 1..total : tasks[i].isComplete})
            rate == ret.stats.completionRate
        IN /\ threw = "none"
           /\ rate = IF total = 0 THEN 0 ELSE RoundHalfUp(completed * 100, total)
           /\ rate \in 0..100
           /\ rate = 100 <=> (total > 0 /\ completed = total)


\* The current calendar day, in the local time zone.
Today == LocalDay(now, tz)

\* C25: a record is overdue exactly when it has a due date, it is not
\* complete and the calendar day of its due date is strictly before the
\* current calendar day: Filter(overdue) returns these records and no other,
\* in every time zone; a record due on the current day, a record without a
\* due date and a complete record are not among them.
C25_OverdueByCalendarDay ==
    (op = "filterTasks" /\ arg.filter = "overdue") =>
        \A i \in 1..Len(tasks) :
            (\E k \in 1..Len(ret.refs) : ret.refs[k] = i)
              <=> /\ tasks[i].dueDate # null
                  /\ ~tasks[i].isComplete
                  /\ tasks[i].dueDate < Today


\* The due date of the record is a day before the current day.
PastDue(task) == task.dueDate # null /\ task.dueDate < Today

\* Filter(overdue) on the collection ts contains the record at index i.
InOverdueFilter(ts, i) ==
    LET refs == filterTasks(ts, "overdue", now, tz)
    IN \E k \in 1..Len(refs) : refs[k] = i

StoreMatches == getTasks(localStorage, TRUE) = Serialization(tasks)

\* C27: in every interleaving of the handlers of the page with the callbacks
\* they deferred, a deferred delete removes from the collection the record
\* with the id it captured when it was scheduled and no other record, so at
\* most one; when no record has that id (a second deferred delete of the
\* same id) it returns false and changes neither the collection nor the
\* storage; an id whose deferred delete is waiting is never given to a new
\* record once its record is gone; the deferred re-render changes neither
\* the collection nor the storage; and after either callback the storage
\* still matches the collection (it matches whenever localStorage is usable).
C27_DeferredCallbacksKeepIntegrity ==
    [][/\ (op' = "deleteTask")
          => LET taskId == arg'.taskId
             IN /\ \E k \in 1..Len(timers) :
                      timers[k] = DeleteTimer(taskId) /\ timers' = Without(k)
                /\ tasks' = SelectSeq(tasks, LAMBDA task : task.id # taskId)
                /\ Len(tasks) - Len(tasks') <= 1
                /\ ret' = RetBoolean(~NoSuchTask(tasks, taskId))
                /\ NoSuchTask(tasks, taskId)
                     => /\ tasks' = tasks
                        /\ localStorage' = localStorage
                        /\ saveCalls' = 0 /\ clearCalls' = 0
       /\ (op' = "renderTasks")
          => /\ tasks' = tasks
             /\ localStorage' = localStorage
             /\ saveCalls' = 0 /\ clearCalls' = 0
       /\ (op' \in {"deleteTask", "renderTasks"})
          => /\ StoreMatches => StoreMatches'
             /\ available => StoreMatches'
       /\ \A k \in 1..Len(timers) :
            (timers[k].callback = "deleteTask" /\ NoSuchTask(tasks, timers[k].taskId))
              => NoSuchTask(tasks', timers[k].taskId)]_vars

\* C27 witness: of two deferred deletes of one id the first has run and
\* removed the record, the second is waiting; the other record of the
\* collection is there and the storage matches.
C27_Witness ==
    /\ op = "deleteTask" /\ ret = RetBoolean(TRUE)
    /\ timers = <<DeleteTimer(arg.taskId)>>
    /\ NoSuchTask(tasks, arg.taskId)
    /\ Len(tasks) = 1
    /\ available /\ StoreMatches

\* The record selected for editing is no longer in the collection.
EditedTaskRemoved ==
    editingTaskId # NoId /\ NoSuchTask(tasks, editingTaskId)

\* C28: when the record selected for editing has been removed from the
\* collection (by a deferred delete, ClearCompleted or ClearAll), submitting
\* the edit form changes neither the collection nor the storage, creates no
\* record, and reports an error: with a title to save, Update is called with
\* the id selected, returns not-found and the failure is what the page shows.
C28_EditOfRemovedTaskFails ==
    [][(EditedTaskRemoved /\ op' \in {"updateTask", "handleEditSubmit"})
         => /\ tasks' = tasks
            /\ localStorage' = localStorage
            /\ saveCalls' = 0 /\ clearCalls' = 0
            /\ toast' = "error"
            /\ editingTaskId' = editingTaskId
            /\ (op' = "updateTask")
                 => /\ arg'.taskId = editingTaskId
                    /\ ret' = RetNull]_vars

\* C28 witness: the edit of a removed record was submitted with a title:
\* Update returned not-found, the page shows an error, and the collection
\* holds another record.
C28_Witness ==
    /\ op = "updateTask" /\ ret = RetNull
    /\ EditedTaskRemoved /\ arg.taskId = editingTaskId
    /\ toast = "error"
    /\ Len(tasks) = 1
    /\ available /\ StoreMatches

=============================================================================
